---- MODULE Spec2Model ----
(***************************************************************************)
(* Anki-packager: the card validators, tag normalisation, the package      *)
(* builder and the two download routes (api/build_apkg.py, api/index.py,   *)
(* api/download.py).                                                       *)
(*                                                                         *)
(* Python strings are sequences of one-character strings.  An optional     *)
(* JSON key is a record [k, s]: k = "absent" (key not supplied), "null"    *)
(* (JSON null / Python None) or "str" (s holds the characters).  A list    *)
(* valued key uses k = "list".                                             *)
(***************************************************************************)
EXTENDS Integers, Sequences, FiniteSets, TLC

VARIABLES pc, route, payload, deck_name, cards, deck, tmp, outcome, response,
          lastDeck, rawCard, cardResult, tagsIn, tagsOut, tagsOut2

vars == <<pc, route, payload, deck_name, cards, deck, tmp, outcome, response,
          lastDeck, rawCard, cardResult, tagsIn, tagsOut, tagsOut2>>

(* ------------------------------ bounds --------------------------------- *)
MaxPieces == 3
MaxTagLen == 3
MaxCards == 2

(* ------------------------- optional values ----------------------------- *)
Absent == [k |-> "absent", s |-> <<>>]
Null == [k |-> "null", s |-> <<>>]
Str(s) == [k |-> "str", s |-> s]
List(l) == [k |-> "list", s |-> l]

\* Python truthiness of an Optional[str] / Optional[list]: None and "" / []
\* are falsy.
Truthy(v) == v.k \in {"str", "list"} /\ v.s # <<>>

\* The attribute of the constructed model: a key that was not supplied takes
\* the field default None.
Attr(v) == IF v.k = "absent" THEN Null ELSE v

(* ----------------------------- characters ------------------------------ *)
LowerLetters == <<"a", "b", "c", "d", "e", "f", "g", "h", "i", "j", "k", "l", "m",
                  "n", "o", "p", "q", "r", "s", "t", "u", "v", "w", "x", "y", "z">>
UpperLetters == <<"A", "B", "C", "D", "E", "F", "G", "H", "I", "J", "K", "L", "M",
                  "N", "O", "P", "Q", "R", "S", "T", "U", "V", "W", "X", "Y", "Z">>
HexDigits == <<"0", "1", "2", "3", "4", "5", "6", "7", "8", "9",
               "a", "b", "c", "d", "e", "f">>
DecDigits == {"0", "1", "2", "3", "4", "5", "6", "7", "8", "9"}

Range(f) == {f[i] : i \in DOMAIN f}
IndexOf(seq, c) == CHOOSE i \in DOMAIN seq : seq[i] = c

\* str.lower() on one character.
LowerChar(c) == IF c \in Range(UpperLetters) THEN LowerLetters[IndexOf(UpperLetters, c)]
                ELSE c
Lower(s) == [i \in DOMAIN s |-> LowerChar(s[i])]

\* The character class [a-z0-9] of kebab's pattern.
KebabChars == Range(LowerLetters) \cup DecDigits
\* The character class [a-zA-Z0-9._-] of the filename pattern.
FilenameChars == Range(LowerLetters) \cup Range(UpperLetters) \cup DecDigits
                     \cup {".", "_", "-"}

(* ------------------------------ kebab ---------------------------------- *)
\* re.sub(r"[^a-z0-9]+", "-", s): every maximal run of characters outside
\* the class becomes one "-".
RECURSIVE SubRunsFrom(_, _, _, _, _)
SubRunsFrom(s, i, inRun, class, rep) ==
    IF i > Len(s) THEN <<>>
    ELSE IF s[i] \in class THEN <<s[i]>> \o SubRunsFrom(s, i + 1, FALSE, class, rep)
    ELSE IF inRun THEN SubRunsFrom(s, i + 1, TRUE, class, rep)
    ELSE <<rep>> \o SubRunsFrom(s, i + 1, TRUE, class, rep)

SubRuns(s) == SubRunsFrom(s, 1, FALSE, KebabChars, "-")

\* str.strip("-")
RECURSIVE LStrip(_)
LStrip(s) == IF s # <<>> /\ Head(s) = "-" THEN LStrip(Tail(s)) ELSE s
RECURSIVE RStrip(_)
RStrip(s) == IF s # <<>> /\ s[Len(s)] = "-" THEN RStrip(SubSeq(s, 1, Len(s) - 1)) ELSE s
Strip(s) == RStrip(LStrip(s))

\* A plausible slip: the hyphens are stripped before the substitution makes
\* them.
KebabStripFirst(s) == SubRuns(Strip(Lower(s)))

kebab(s) == Strip(SubRuns(Lower(s)))

(* -------------------------- normalize_tags ----------------------------- *)
HasColon(t) == \E i \in DOMAIN t : t[i] = ":"
FirstColon(t) == CHOOSE i \in DOMAIN t : t[i] = ":" /\ \A j \in 1..(i - 1) : t[j] # ":"

\* One iteration of the loop of normalize_tags: t.split(":", 1) and
\* f"{k}:{kebab(v)}", or kebab(t).
NormalizeTag(t) ==
    IF HasColon(t)
    THEN SubSeq(t, 1, FirstColon(t) - 1) \o <<":">>
             \o kebab(SubSeq(t, FirstColon(t) + 1, Len(t)))
    ELSE kebab(t)

\* normalize_tags(tags): "for t in (tags or [])", one output per input.
normalize_tags(tags) ==
    IF Truthy(tags) THEN [i \in DOMAIN tags.s |-> NormalizeTag(tags.s[i])] ELSE <<>>

(* ------------------------- cloze marker scan --------------------------- *)
\* \d+ starting at index j: the index of the last digit of the run (j - 1
\* when s[j] is no digit).
RECURSIVE DigitsEnd(_, _)
DigitsEnd(s, j) == IF j <= Len(s) /\ s[j] \in DecDigits THEN DigitsEnd(s, j + 1) ELSE j - 1

\* The pattern {{c\d+:: matched at index i: the index of its last character,
\* or 0 when it does not match there.
MatchEnd(s, i) ==
    IF i + 2 <= Len(s) /\ s[i] = "{" /\ s[i + 1] = "{" /\ s[i + 2] = "c"
    THEN LET e == DigitsEnd(s, i + 3)
         IN  IF e >= i + 3 /\ e + 2 <= Len(s) /\ s[e + 1] = ":" /\ s[e + 2] = ":"
             THEN e + 2 ELSE 0
    ELSE 0

\* re.findall(r"{{c\d+::", v): the non-overlapping matches, left to right.
RECURSIVE FindAllFrom(_, _)
FindAllFrom(s, i) ==
    IF i > Len(s) THEN <<>>
    ELSE IF MatchEnd(s, i) > 0
         THEN <<SubSeq(s, i, MatchEnd(s, i))>> \o FindAllFrom(s, MatchEnd(s, i) + 1)
         ELSE FindAllFrom(s, i + 1)
FindAll(s) == FindAllFrom(s, 1)

\* A plausible slip: the distinct markers are counted, len(set(findall)).
ClozeCountDistinct(v) == Cardinality(Range(FindAll(v)))

\* n = len(re.findall(r"{{c\d+::", v))
ClozeCount(v) == Len(FindAll(v))

(* --------------------------- Card validators --------------------------- *)
NoteTypes == {"Basic", "Basic (and reverse)", "Cloze"}
BasicTypes == {"Basic", "Basic (and reverse)"}
MAX_CLOZE == 2

\* values.get("note_type"): the validated note_type, None when the Literal
\* check of note_type failed (the key is then not in values).
ValuesNoteType(raw) == IF raw.note_type \in NoteTypes THEN raw.note_type ELSE "None"

\* @validator(..., always=False): the validator runs only when the key was
\* supplied (an explicit null included: it then sees v = None), never on the
\* field default.
ValidatorRuns(v) == v.k # "absent"

\* v_front / front_required_for_basic, v_back / back_required_for_basic
v_required(v, note_type) ==
    IF note_type \in BasicTypes /\ ~Truthy(v) THEN "required" ELSE "ok"

\* v_text / text_required_for_cloze
v_text(v, note_type) ==
    IF note_type = "Cloze" /\ ~Truthy(v) THEN "required"
    ELSE IF Truthy(v) /\ ClozeCount(v.s) > MAX_CLOZE THEN "toomany"
    ELSE "ok"

\* Card(**raw) of build_apkg.py and index.py: every field is validated and
\* the errors are collected; the instance exists only when there is none.
ConstructCard(raw) ==
    LET nt == ValuesNoteType(raw)
        e_nt == IF raw.note_type \in NoteTypes THEN "ok" ELSE "invalid"
        e_front == IF ValidatorRuns(raw.front) THEN v_required(raw.front, nt) ELSE "ok"
        e_back == IF ValidatorRuns(raw.back) THEN v_required(raw.back, nt) ELSE "ok"
        e_text == IF ValidatorRuns(raw.text) THEN v_text(raw.text, nt) ELSE "ok"
        ok == e_nt = "ok" /\ e_front = "ok" /\ e_back = "ok" /\ e_text = "ok"
    IN  [status |-> IF ok THEN "accepted" ELSE "rejected",
         note_type |-> e_nt, front |-> e_front, back |-> e_back, text |-> e_text,
         n |-> IF e_text = "toomany" THEN ClozeCount(raw.text.s) ELSE 0]

\* The instance a successful construction yields.
CardOf(raw) == [note_type |-> raw.note_type, front |-> Attr(raw.front),
                back |-> Attr(raw.back), text |-> Attr(raw.text), tags |-> Attr(raw.tags)]

\* Card(**raw) of download.py: the class declares no validator; only the
\* Literal check of note_type can fail.
ConstructCardDownload(raw) ==
    [status |-> IF raw.note_type \in NoteTypes THEN "accepted" ELSE "rejected",
     note_type |-> IF raw.note_type \in NoteTypes THEN "ok" ELSE "invalid",
     front |-> "ok", back |-> "ok", text |-> "ok", n |-> 0]

(* --------------------------- bounded inputs ---------------------------- *)
RECURSIVE SeqsUpTo(_, _)
SeqsUpTo(S, n) ==
    IF n = 0 THEN {<<>>}
    ELSE LET shorter == SeqsUpTo(S, n - 1)
         IN  shorter \cup {Append(q, x) : q \in {r \in shorter : Len(r) = n - 1}, x \in S}

RECURSIVE Concat(_)
Concat(ps) == IF ps = <<>> THEN <<>> ELSE Head(ps) \o Concat(Tail(ps))

TextPieces == { <<"{", "{", "c", "1", ":", ":">>, <<"{", "{", "c", "2", ":", ":">>,
                <<"{", "{", "c", "1", "2", ":", ":">>, <<"a", "}", "}">>,
                <<"{", "{", "c", ":", ":">> }
Texts == {Concat(ps) : ps \in SeqsUpTo(TextPieces, MaxPieces)}

TagAlphabet == {"a", "B", "1", " ", "-", ":"}
TagStrings == SeqsUpTo(TagAlphabet, MaxTagLen)

OptFront == {Absent, Null, Str(<<>>), Str(<<"Q">>)}
OptBack == {Absent, Null, Str(<<>>), Str(<<"A">>)}
OptText == {Absent, Null} \cup {Str(t) : t \in Texts}
RawCards == [note_type : NoteTypes \cup {"Bogus"}, front : OptFront, back : OptBack,
             text : OptText, tags : {Absent}]

NoCard == [note_type |-> "None", front |-> Absent, back |-> Absent, text |-> Absent,
           tags |-> Absent]
NoResult == [status |-> "none", note_type |-> "ok", front |-> "ok", back |-> "ok",
             text |-> "ok", n |-> 0]

(* ----------------------------- deck names ------------------------------ *)
LEARNING_AI == <<"L", "e", "a", "r", "n", "i", "n", "g", " ", "A", "I">>
MY_DECK == <<"M", "y", " ", "D", "e", "c", "k">>
A__B == <<"a", " ", " ", "b">>

\* hashlib.sha256(deck_name.encode("utf-8")).hexdigest() of the deck names
\* above.
Sha256Hex(name) ==
    CASE name = LEARNING_AI ->
        <<"f", "d", "9", "5", "4", "a", "0", "c", "2", "f", "0", "6", "2", "8", "6", "4",
        "4", "d", "6", "a", "c", "8", "e", "9", "1", "e", "2", "6", "6", "f", "6", "2",
        "c", "4", "e", "f", "8", "3", "1", "d", "c", "9", "b", "c", "e", "5", "f", "2",
        "8", "c", "c", "3", "e", "7", "b", "8", "a", "0", "2", "f", "5", "9", "a", "a">>
      [] name = MY_DECK ->
        <<"0", "2", "8", "2", "c", "6", "e", "7", "9", "b", "6", "e", "4", "b", "e", "1",
        "f", "4", "d", "1", "1", "0", "c", "8", "7", "4", "0", "1", "0", "b", "c", "6",
        "8", "f", "9", "5", "6", "8", "5", "e", "9", "0", "4", "5", "b", "a", "f", "3",
        "4", "6", "6", "0", "9", "6", "9", "c", "2", "2", "5", "b", "b", "b", "0", "6">>
      [] name = A__B ->
        <<"6", "e", "1", "2", "d", "b", "7", "3", "2", "0", "9", "a", "6", "6", "d", "1",
        "4", "7", "a", "6", "7", "a", "1", "5", "8", "6", "8", "b", "d", "b", "4", "b",
        "8", "a", "e", "5", "7", "b", "8", "8", "4", "d", "4", "7", "3", "1", "3", "1",
        "0", "b", "6", "2", "f", "8", "2", "a", "7", "d", "6", "7", "6", "1", "1", "e">>

(* ------------------------------ deck id -------------------------------- *)
\* The id is a 48-bit value; it is held as three 16-bit limbs, most
\* significant first: id = limb[1] * 2^32 + limb[2] * 2^16 + limb[3].
HexVal(c) == IndexOf(HexDigits, c) - 1
RECURSIVE ParseHex(_)
ParseHex(h) == IF h = <<>> THEN 0
               ELSE 16 * ParseHex(SubSeq(h, 1, Len(h) - 1)) + HexVal(h[Len(h)])

\* int(digits, 16) of a string of 12 hex digits.
IntOfHex12(h) == <<ParseHex(SubSeq(h, 1, 4)), ParseHex(SubSeq(h, 5, 8)),
                   ParseHex(SubSeq(h, 9, 12))>>

\* A plausible slip: the id masked to 32 bits (& 0xFFFFFFFF).
DeckIdMasked32(name) == <<0>> \o Tail(IntOfHex12(SubSeq(Sha256Hex(name), 1, 12)))

\* deck_id = int(hashlib.sha256(...).hexdigest()[:12], 16)
DeckId(name) == IntOfHex12(SubSeq(Sha256Hex(name), 1, 12))

(* ------------------------------ builder -------------------------------- *)
BASIC_MODEL_ID == 1607392319
REVERSE_MODEL_ID == BASIC_MODEL_ID + 1
CLOZE_MODEL_ID == 998877665

\* The body of "for c in cards": the note of one card.
NoteOf(c) ==
    IF c.note_type = "Basic"
    THEN [model |-> BASIC_MODEL_ID, fields |-> <<c.front, c.back>>,
          tags |-> normalize_tags(c.tags)]
    ELSE IF c.note_type = "Basic (and reverse)"
    THEN [model |-> REVERSE_MODEL_ID, fields |-> <<c.front, c.back>>,
          tags |-> normalize_tags(c.tags)]
    ELSE [model |-> CLOZE_MODEL_ID, fields |-> <<c.text>>,
          tags |-> normalize_tags(c.tags)]

\* A plausible slip: notes prepended instead of appended.
RECURSIVE AddNotesReversed(_, _)
AddNotesReversed(notes, cs) ==
    IF cs = <<>> THEN notes ELSE AddNotesReversed(<<NoteOf(Head(cs))>> \o notes, Tail(cs))

\* The loop of build_apkg_bytes / build_apkg: deck.add_note(note) per card,
\* in input order.
RECURSIVE AddNotes(_, _)
AddNotes(notes, cs) ==
    IF cs = <<>> THEN notes ELSE AddNotes(Append(notes, NoteOf(Head(cs))), Tail(cs))

NoDeck == [made |-> FALSE, id |-> <<0, 0, 0>>, name |-> <<>>, notes |-> <<>>]
NoPayload == [ok |-> FALSE, deck_name |-> Absent, cards |-> Absent]
NoResponse == [status |-> 0, detail |-> "", filename |-> <<>>, content |-> NoDeck]

\* genanki.Deck(deck_id, deck_name) and the loop over the cards.
B_MakeDeck ==
    /\ pc = "build"
    /\ deck' = [made |-> TRUE, id |-> DeckId(deck_name), name |-> deck_name,
                notes |-> AddNotes(<<>>, cards)]
    /\ pc' = "tmp_create"
    /\ UNCHANGED <<route, payload, deck_name, cards, tmp, outcome, response, lastDeck,
                   rawCard, cardResult, tagsIn, tagsOut, tagsOut2>>

\* tempfile.NamedTemporaryFile(delete=False, ...); tmp.close(): an empty file
\* is left on disk, or the creation raises.
B_CreateTmp ==
    /\ pc = "tmp_create"
    /\ \E created \in BOOLEAN :
          IF created THEN tmp' = "empty" /\ pc' = "write" /\ outcome' = outcome
          ELSE tmp' = tmp /\ pc' = "returned" /\ outcome' = "raised"
    /\ UNCHANGED <<route, payload, deck_name, cards, deck, response, lastDeck,
                   rawCard, cardResult, tagsIn, tagsOut, tagsOut2>>

\* genanki.Package(deck).write_to_file(tmp.name): writes the archive or
\* raises, leaving whatever was written.
B_Write ==
    /\ pc = "write"
    /\ \E written \in BOOLEAN :
          IF written THEN tmp' = "written" /\ pc' = "read" /\ outcome' = outcome
          ELSE tmp' \in {"empty", "partial"} /\ pc' = "cleanup" /\ outcome' = "raised"
    /\ UNCHANGED <<route, payload, deck_name, cards, deck, response, lastDeck,
                   rawCard, cardResult, tagsIn, tagsOut, tagsOut2>>

\* with open(tmp.name, "rb") as f: return f.read()
B_Read ==
    /\ pc = "read"
    /\ \E read \in BOOLEAN : outcome' = IF read THEN "content" ELSE "raised"
    /\ pc' = "cleanup"
    /\ UNCHANGED <<route, payload, deck_name, cards, deck, tmp, response, lastDeck,
                   rawCard, cardResult, tagsIn, tagsOut, tagsOut2>>

\* finally: try: os.remove(tmp.name) / except OSError: pass.  The call then
\* returns the bytes or lets the pending exception go on.
B_Remove ==
    /\ pc = "cleanup"
    /\ \E removed \in BOOLEAN : tmp' = IF removed THEN "removed" ELSE tmp
    /\ pc' = "returned"
    /\ UNCHANGED <<route, payload, deck_name, cards, deck, outcome, response, lastDeck,
                   rawCard, cardResult, tagsIn, tagsOut, tagsOut2>>

Build == B_MakeDeck \/ B_CreateTmp \/ B_Write \/ B_Read \/ B_Remove

(* --------------------------- suggested filename ------------------------ *)
APKG == <<".", "a", "p", "k", "g">>
DECK_APKG == <<"d", "e", "c", "k", ".", "a", "p", "k", "g">>
NONE_TEXT == <<"N", "o", "n", "e">>

\* f"{x}" of an Optional[str]
Format(v) == IF v.k = "str" THEN v.s ELSE NONE_TEXT

\* A plausible slip: the pattern without "+", one "_" per character.
SanitizePerChar(s) == [i \in DOMAIN s |-> IF s[i] \in FilenameChars THEN s[i] ELSE "_"]

\* re.sub(r"[^a-zA-Z0-9._-]+", "_", s)
Sanitize(s) == SubRunsFrom(s, 1, FALSE, FilenameChars, "_")

\* re.sub(..., f"{name}.apkg") or "deck.apkg"
Filename(name) == IF Sanitize(name \o APKG) = <<>> THEN DECK_APKG ELSE Sanitize(name \o APKG)

\* x or "Learning AI"
OrLearningAI(v) == IF Truthy(v) THEN v.s ELSE LEARNING_AI

(* ------------------------- request inputs ------------------------------ *)
\* A text with three occurrences of one marker, and one with three markers.
TEXT_C1_C1_C1 == Concat(<<<<"{", "{", "c", "1", ":", ":">>, <<"{", "{", "c", "1", ":", ":">>,
                          <<"{", "{", "c", "1", ":", ":">>>>)
TEXT_C1_C2 == Concat(<<<<"{", "{", "c", "1", ":", ":">>, <<"a", "}", "}">>,
                       <<"{", "{", "c", "2", ":", ":">>>>)
SOURCE_TAG == <<"S", "o", "u", "r", "c", "e", ":", "M", "y", " ", "T", "o", "p", "i", "c">>
SOME_TAGS == List(<<SOURCE_TAG, <<>>, <<"A", " ", "b">>, <<"a", "-", "b">>>>)

\* The rules a card has to satisfy: the required fields of its note type
\* non-empty, and at most MAX_CLOZE markers in the text of a Cloze card.
ValidCard(c) ==
    /\ c.note_type \in NoteTypes
    /\ c.note_type \in BasicTypes => Truthy(c.front) /\ Truthy(c.back)
    /\ c.note_type = "Cloze" => Truthy(c.text) /\ ClozeCount(c.text.s) <= MAX_CLOZE

\* Raw cards of the download payloads.
RouteCards == [note_type : {"Basic", "Cloze"}, front : {Absent, Str(<<>>), Str(<<"Q">>)},
               back : {Str(<<"A">>)}, text : {Absent, Str(TEXT_C1_C1_C1)},
               tags : {Absent}]
RouteNames == {Absent, Null, Str(<<>>), Str(MY_DECK), Str(A__B)}
Payloads == {NoPayload} \cup
            [ok : {TRUE}, deck_name : RouteNames,
             cards : {Absent} \cup {List(l) : l \in SeqsUpTo(RouteCards, MaxCards)}]

\* Cards handed to the builder by a direct call.
BuildCards == {c \in [note_type : NoteTypes, front : {Null, Str(<<"Q">>)},
                      back : {Null, Str(<<"A">>)}, text : {Null, Str(TEXT_C1_C2)},
                      tags : {Null, SOME_TAGS}] :
                 /\ ValidCard(c)
                 /\ c.note_type \in BasicTypes => c.text = Null
                 /\ c.note_type = "Basic (and reverse)" => c.tags = Null
                 /\ c.note_type = "Cloze" => c.back = Null /\ (c.front = Null \/ c.tags = Null)}
BuildNames == {LEARNING_AI, MY_DECK}

(* ------------------------------- routes -------------------------------- *)
\* GET with a payload query parameter, on api/download.py or on the
\* /download route of api/index.py.
Receive ==
    /\ pc = "idle"
    /\ \E r \in {"download_py", "index"}, p \in Payloads :
          route' = r /\ payload' = p
    /\ pc' = "received"
    /\ UNCHANGED <<deck_name, cards, deck, tmp, outcome, response, lastDeck,
                   rawCard, cardResult, tagsIn, tagsOut, tagsOut2>>

Reply(status, detail) ==
    /\ response' = [status |-> status, detail |-> detail, filename |-> <<>>,
                    content |-> NoDeck]
    /\ pc' = "done"
    /\ UNCHANGED <<deck_name, cards>>

\* bp.deck_name of download.py: BuildPayload's default is "Learning AI".
BpDeckName == IF payload.deck_name = Absent THEN Str(LEARNING_AI) ELSE payload.deck_name

\* download() of api/download.py up to the call of build_apkg_bytes.
DownloadPy_Decode ==
    /\ pc = "received" /\ route = "download_py"
    /\ IF ~payload.ok \/ payload.cards.k # "list"
          \/ \E i \in DOMAIN payload.cards.s :
                ConstructCardDownload(payload.cards.s[i]).status # "accepted"
       THEN Reply(400, "Bad payload")
       ELSE /\ deck_name' = OrLearningAI(BpDeckName)
            /\ cards' = [i \in DOMAIN payload.cards.s |-> CardOf(payload.cards.s[i])]
            /\ pc' = "build"
            /\ response' = response
    /\ UNCHANGED <<route, payload, deck, tmp, outcome, lastDeck,
                   rawCard, cardResult, tagsIn, tagsOut, tagsOut2>>

\* download() of api/download.py after build_apkg_bytes: an exception of the
\* builder is not caught (500); otherwise the archive is sent.
DownloadPy_Respond ==
    /\ pc = "returned" /\ route = "download_py"
    /\ response' = IF outcome = "content"
                   THEN [status |-> 200, detail |-> "",
                         filename |-> Filename(Format(BpDeckName)), content |-> deck]
                   ELSE [status |-> 500, detail |-> "Internal Server Error",
                         filename |-> <<>>, content |-> NoDeck]
    /\ pc' = "done"
    /\ UNCHANGED <<route, payload, deck_name, cards, deck, tmp, outcome, lastDeck,
                   rawCard, cardResult, tagsIn, tagsOut, tagsOut2>>

\* data.get("cards", [])
IndexCards == IF payload.cards.k = "absent" THEN <<>> ELSE payload.cards.s

\* download() of api/index.py up to the call of build_apkg.
Index_Decode ==
    /\ pc = "received" /\ route = "index"
    /\ IF ~payload.ok THEN Reply(400, "Bad payload")
       ELSE IF \E i \in DOMAIN IndexCards : ConstructCard(IndexCards[i]).status # "accepted"
       THEN Reply(500, "Internal Server Error")
       ELSE IF IndexCards = <<>> THEN Reply(400, "No cards")
       ELSE /\ deck_name' = OrLearningAI(payload.deck_name)
            /\ cards' = [i \in DOMAIN IndexCards |-> CardOf(IndexCards[i])]
            /\ pc' = "build"
            /\ response' = response
    /\ UNCHANGED <<route, payload, deck, tmp, outcome, lastDeck,
                   rawCard, cardResult, tagsIn, tagsOut, tagsOut2>>

\* download() of api/index.py after build_apkg.
Index_Respond ==
    /\ pc = "returned" /\ route = "index"
    /\ response' = IF outcome = "content"
                   THEN [status |-> 200, detail |-> "",
                         filename |-> Filename(deck_name), content |-> deck]
                   ELSE [status |-> 500, detail |-> "Internal Server Error",
                         filename |-> <<>>, content |-> NoDeck]
    /\ pc' = "done"
    /\ UNCHANGED <<route, payload, deck_name, cards, deck, tmp, outcome, lastDeck,
                   rawCard, cardResult, tagsIn, tagsOut, tagsOut2>>

\* A direct call of build_apkg_bytes(deck_name, cards), one call after the
\* other; lastDeck remembers the deck of the call before.
BuildCall ==
    /\ pc \in {"idle", "returned"} /\ route = "none"
    /\ \E name \in BuildNames, cs \in SeqsUpTo(BuildCards, MaxCards) :
          deck_name' = name /\ cards' = cs
    /\ lastDeck' = IF deck.made THEN [deck EXCEPT !.notes = <<>>] ELSE lastDeck
    /\ deck' = NoDeck /\ tmp' = "none" /\ outcome' = "none"
    /\ pc' = "build"
    /\ UNCHANGED <<route, payload, response, rawCard, cardResult, tagsIn, tagsOut, tagsOut2>>

(* ------------------------- pure-function steps ------------------------- *)
\* Card(**rawCard) of build_apkg.py / index.py
CardConstruct ==
    /\ pc = "card"
    /\ cardResult' = ConstructCard(rawCard)
    /\ pc' = "card_done"
    /\ UNCHANGED <<route, payload, deck_name, cards, deck, tmp, outcome, response,
                   lastDeck, rawCard, tagsIn, tagsOut, tagsOut2>>

\* normalize_tags(tagsIn)
TagsNormalize ==
    /\ pc = "tags"
    /\ tagsOut' = normalize_tags(tagsIn)
    /\ pc' = "tags_once"
    /\ UNCHANGED <<route, payload, deck_name, cards, deck, tmp, outcome, response,
                   lastDeck, rawCard, cardResult, tagsIn, tagsOut2>>

\* normalize_tags applied to its own output
TagsNormalizeAgain ==
    /\ pc = "tags_once"
    /\ tagsOut2' = normalize_tags(List(tagsOut))
    /\ pc' = "tags_twice"
    /\ UNCHANGED <<route, payload, deck_name, cards, deck, tmp, outcome, response,
                   lastDeck, rawCard, cardResult, tagsIn, tagsOut>>

(* --------------------------- specifications ---------------------------- *)
Quiet ==
    /\ route = "none" /\ payload = NoPayload /\ deck_name = <<>> /\ cards = <<>>
    /\ deck = NoDeck /\ tmp = "none" /\ outcome = "none" /\ response = NoResponse
    /\ lastDeck = NoDeck

Init ==
    /\ pc = "idle" /\ Quiet
    /\ rawCard = NoCard /\ cardResult = NoResult
    /\ tagsIn = Null /\ tagsOut = <<>> /\ tagsOut2 = <<>>

\* The two download routes, one request.
Next == Receive \/ DownloadPy_Decode \/ Index_Decode \/ Build
           \/ DownloadPy_Respond \/ Index_Respond
Spec == Init /\ [][Next]_vars

\* The builder called directly, call after call.
NextBuild == BuildCall \/ Build
SpecBuild == Init /\ [][NextBuild]_vars

\* The Card validators on one raw card.
InitCard ==
    /\ pc = "card" /\ Quiet
    /\ rawCard \in RawCards /\ cardResult = NoResult
    /\ tagsIn = Null /\ tagsOut = <<>> /\ tagsOut2 = <<>>
SpecCard == InitCard /\ [][CardConstruct]_vars

\* normalize_tags on one tag list, then on its own output.
InitTags ==
    /\ pc = "tags" /\ Quiet
    /\ rawCard = NoCard /\ cardResult = NoResult
    /\ tagsIn \in {Null, List(<<>>)} \cup {List(<<t>>) : t \in TagStrings}
    /\ tagsOut = <<>> /\ tagsOut2 = <<>>
NextTags == TagsNormalize \/ TagsNormalizeAgain
SpecTags == InitTags /\ [][NextTags]_vars

(* ======================= properties of the code ======================== *)

(* ------------------------------ validators ----------------------------- *)
\* A key that is not supplied, or the empty string.
FieldMissing(v) == v = Absent \/ v = Str(<<>>)

\* C1: a Basic or Basic (and reverse) card whose front or back is absent or
\* the empty string is rejected by the construction of the Card, with the
\* missing-field error on that field.
C1_MissingFieldRejected ==
    (pc = "card_done" /\ rawCard.note_type \in BasicTypes) =>
        /\ FieldMissing(rawCard.front) =>
              cardResult.status = "rejected" /\ cardResult.front = "required"
        /\ FieldMissing(rawCard.back) =>
              cardResult.status = "rejected" /\ cardResult.back = "required"

\* The indices of s at which the pattern {{c<digits>:: matches.
MarkerStarts(s) == {i \in DOMAIN s : MatchEnd(s, i) > 0}
\* The distinct marker strings of s.
DistinctMarkers(s) == {SubSeq(s, i, MatchEnd(s, i)) : i \in MarkerStarts(s)}

ClozeWithText == pc = "card_done" /\ rawCard.note_type = "Cloze" /\ Truthy(rawCard.text)
TooMany == cardResult.status = "rejected" /\ cardResult.text = "toomany"

\* C2 as stated: a Cloze card with non-empty text fails with the too-many
\* error iff it has more than 2 DISTINCT markers, and the error carries the
\* number of distinct markers.
C2_DistinctMarkerLimit ==
    ClozeWithText =>
        /\ TooMany <=> Cardinality(DistinctMarkers(rawCard.text.s)) > 2
        /\ TooMany => cardResult.n = Cardinality(DistinctMarkers(rawCard.text.s))

\* C2 amended: a Cloze card with non-empty text fails with the too-many error
\* iff the pattern occurs more than 2 times in the text, repeats of one
\* marker counted, and the error carries the number of occurrences.
C2_OccurrenceLimit ==
    ClozeWithText =>
        /\ TooMany <=> Cardinality(MarkerStarts(rawCard.text.s)) > 2
        /\ TooMany => cardResult.n = Cardinality(MarkerStarts(rawCard.text.s))

\* One marker three times: one distinct marker, three occurrences, rejected
\* with the count 3.
C2_Witness ==
    /\ ClozeWithText /\ TooMany /\ cardResult.n = 3
    /\ Cardinality(DistinctMarkers(rawCard.text.s)) = 1

\* C10: the outcome depends only on the fields of the note type: a Basic or
\* Basic (and reverse) card with non-empty front and back is accepted
\* whatever its text, a Cloze card with a valid text whatever its front and
\* back.
C10_OnlyOwnFieldsDecide ==
    pc = "card_done" =>
        /\ (rawCard.note_type \in BasicTypes /\ Truthy(rawCard.front) /\ Truthy(rawCard.back))
              => cardResult.status = "accepted"
        /\ (rawCard.note_type = "Cloze" /\ Truthy(rawCard.text)
              /\ Cardinality(MarkerStarts(rawCard.text.s)) <= 2)
              => cardResult.status = "accepted"

(* --------------------------- tag normalisation ------------------------- *)
\* C5: normalising the normalised tag again yields the same tag:
\* normalize_tags([normalize_tags([t])[0]]) = normalize_tags([t]).
C5_NormalizeIdempotent == pc = "tags_twice" => tagsOut2 = tagsOut

\* A tag with a colon that the first normalisation changed.
C5_Witness ==
    /\ pc = "tags_twice" /\ tagsIn.k = "list" /\ tagsIn.s # <<>>
    /\ HasColon(tagsIn.s[1]) /\ tagsOut[1] # tagsIn.s[1] /\ tagsOut[1] # <<":">>

(* ------------------------------- builder ------------------------------- *)
InBuilder == pc \in {"build", "tmp_create", "write", "read", "cleanup", "returned"}

\* C3: on both download routes the builder only ever runs on cards that
\* satisfy the validation rules; with an invalid card in the payload no
\* deck, note or staging file is made and no archive is returned.
C3_BuilderOnlyValidCards ==
    (route # "none" /\ (InBuilder \/ deck.made \/ tmp # "none" \/ response.status = 200))
        => \A i \in DOMAIN cards : ValidCard(cards[i])

TagsLen(c) == IF c.tags.k = "list" THEN Len(c.tags.s) ELSE 0

\* C4: the deck holds one note per card, in input order, bound to the model
\* of the card's note type with its fields, and with one normalised tag per
\* input tag, in order.
C4_NotesMatchCards ==
    deck.made =>
        /\ Len(deck.notes) = Len(cards)
        /\ \A i \in DOMAIN cards :
              LET c == cards[i]
                  n == deck.notes[i]
              IN  /\ c.note_type = "Basic" =>
                        n.model = 1607392319 /\ n.fields = <<c.front, c.back>>
                  /\ c.note_type = "Basic (and reverse)" =>
                        n.model = 1607392320 /\ n.fields = <<c.front, c.back>>
                  /\ c.note_type = "Cloze" =>
                        n.model = 998877665 /\ n.fields = <<c.text>>
                  /\ Len(n.tags) = TagsLen(c)
                  /\ \A j \in 1..TagsLen(c) : n.tags[j] = NormalizeTag(c.tags.s[j])

\* Two cards of different note types, the second with tags, among them an
\* empty one and "Source:My Topic".
C4_Witness ==
    /\ deck.made /\ Len(cards) = 2 /\ route = "none"
    /\ cards[1].note_type = "Cloze" /\ cards[2].note_type = "Basic"
    /\ Len(deck.notes[2].tags) = 4
    /\ deck.notes[2].tags[1] = <<"S", "o", "u", "r", "c", "e", ":", "m", "y", "-",
                                 "t", "o", "p", "i", "c">>
    /\ deck.notes[2].tags[2] = <<>>
    /\ deck.notes[2].tags[3] = deck.notes[2].tags[4]

\* C8: when a build call has returned or raised, its staging file is gone.
C8_TempFileReleased == pc = "returned" => tmp \in {"none", "removed"}

\* Hex digit k (1 = most significant) of a 48-bit id held as three limbs.
Pow16(e) == IF e = 0 THEN 1 ELSE IF e = 1 THEN 16 ELSE IF e = 2 THEN 256 ELSE 4096
HexDigitAt(id, k) == (id[((k - 1) \div 4) + 1] \div Pow16(3 - ((k - 1) % 4))) % 16

SameNameSameId == (lastDeck.made /\ lastDeck.name = deck.name) => lastDeck.id = deck.id
First12Digits(id, name) == \A k \in 1..12 : HexDigitAt(id, k) = HexVal(Sha256Hex(name)[k])

\* C9 as stated: the id depends on the name alone, comes from the first 12
\* hex digits of the digest and is truncated to 32 bits: 0 <= id < 2^32.
C9_IdFits32Bits ==
    deck.made =>
        /\ SameNameSameId
        /\ \A k \in 5..12 : HexDigitAt(deck.id, k) = HexVal(Sha256Hex(deck.name)[k])
        /\ deck.id[1] = 0

\* C9 amended: the id depends on the name alone and is the value of the
\* first 12 hex digits of the digest, not truncated: 0 <= id < 2^48.
C9_IdIsFirst12HexDigits ==
    deck.made =>
        /\ SameNameSameId
        /\ Len(deck.id) = 3 /\ \A l \in 1..3 : deck.id[l] \in 0..65535
        /\ First12Digits(deck.id, deck.name)

\* A second call with the name of the call before, and an id of 2^32 or more.
C9_Witness ==
    /\ deck.made /\ lastDeck.made /\ lastDeck.name = deck.name /\ route = "none"
    /\ deck.id[1] > 0

(* ------------------------------- routes -------------------------------- *)
LEARNING_AI_APKG == <<"L", "e", "a", "r", "n", "i", "n", "g", "_", "A", "I",
                      ".", "a", "p", "k", "g">>

\* C6: with the deck name absent, null or empty, "Learning AI" names the
\* deck, gives the id and gives the filename Learning_AI.apkg, on both
\* routes.
C6_FallbackNameEverywhere ==
    (response.status = 200 /\ ~Truthy(payload.deck_name)) =>
        /\ response.content.name = LEARNING_AI
        /\ First12Digits(response.content.id, LEARNING_AI)
        /\ response.filename = LEARNING_AI_APKG

\* The name the route formats into the filename.
FormattedName == IF route = "index" THEN response.content.name ELSE Format(BpDeckName)

\* C7 as stated: every single character of the deck name outside
\* [A-Za-z0-9._-] becomes one "_", so the stem is as long as the name, and
\* ".apkg" follows.
C7_PerCharacterFilename ==
    (response.status = 200 /\ Truthy(payload.deck_name)) =>
        LET name == payload.deck_name.s
        IN  /\ Len(response.filename) = Len(name) + Len(APKG)
            /\ \A i \in DOMAIN name :
                  response.filename[i] = IF name[i] \in FilenameChars THEN name[i] ELSE "_"
            /\ SubSeq(response.filename, Len(name) + 1, Len(response.filename)) = APKG

\* The characters of s that survive the substitution: the allowed ones and
\* the first character of every run of others.
Kept(s) == {i \in DOMAIN s : s[i] \in FilenameChars \/ i = 1 \/ s[i - 1] \in FilenameChars}
RankIn(S, i) == Cardinality({j \in S : j <= i})

\* C7 amended: the filename is f"{name}.apkg" with every maximal run of
\* characters outside [A-Za-z0-9._-] replaced by one "_"; it always ends in
\* ".apkg", so it is never empty and the fallback is never taken.
C7_RunCollapsedFilename ==
    response.status = 200 =>
        LET s == FormattedName \o APKG
            f == response.filename
        IN  /\ Len(f) = Cardinality(Kept(s))
            /\ \A i \in Kept(s) :
                  f[RankIn(Kept(s), i)] = IF s[i] \in FilenameChars THEN s[i] ELSE "_"
            /\ Len(f) >= Len(APKG) /\ SubSeq(f, Len(f) - Len(APKG) + 1, Len(f)) = APKG

\* "a  b": two consecutive spaces give one underscore.
C7_Witness ==
    /\ response.status = 200 /\ payload.deck_name = Str(A__B)
    /\ response.filename = <<"a", "_", "b", ".", "a", "p", "k", "g">>
====
